---- MODULE Spec2Model ----
(***************************************************************************)
(* Model of tutor_agent.py: the chat handler of the Tutor Agent, its       *)
(* command parser and its prompt generators.                               *)
(*                                                                         *)
(* A Python str is a sequence of pieces: a piece is one character of user  *)
(* text or one literal block of the program's own text (a prompt template  *)
(* part, an error prefix, a fixed greeting).  Concatenation is \o.         *)
(***************************************************************************)
EXTENDS Integers, Sequences, FiniteSets, TLC

VARIABLES inbox, pc, cur, idx, outbox, calls, intents, arrived, crashed

vars == <<inbox, pc, cur, idx, outbox, calls, intents, arrived, crashed>>

(* ------------------------------ bounds --------------------------------- *)
MaxMsgs == 2
MaxQueue == 1
MaxItems == 3
MaxChunks == 3

(* ------------------------------ strings -------------------------------- *)
WhiteSpace == {" ", "\t", "\n"}

UpperToLower ==
  [c \in {"Q", "U", "I", "Z", "H", "E", "L", "P", "B"} |->
     CASE c = "Q" -> "q" [] c = "U" -> "u" [] c = "I" -> "i" [] c = "Z" -> "z"
       [] c = "H" -> "h" [] c = "E" -> "e" [] c = "L" -> "l" [] c = "P" -> "p"
       [] c = "B" -> "b"]

LowerChar(c) == IF c \in DOMAIN UpperToLower THEN UpperToLower[c] ELSE c

\* str.lower()
Lower(s) == [i \in 1..Len(s) |-> LowerChar(s[i])]

SetMin(S) == CHOOSE x \in S : \A y \in S : x <= y
SetMax(S) == CHOOSE x \in S : \A y \in S : x >= y

\* str.strip()
Strip(s) ==
  LET keep == {i \in 1..Len(s) : s[i] \notin WhiteSpace}
  IN  IF keep = {} THEN << >> ELSE SubSeq(s, SetMin(keep), SetMax(keep))

\* str.startswith(p)
StartsWith(s, p) == Len(s) >= Len(p) /\ SubSeq(s, 1, Len(p)) = p

\* str.replace(old, ''): every non-overlapping occurrence, left to right
RECURSIVE RemoveAll(_, _)
RemoveAll(s, old) ==
  IF s = << >> THEN << >>
  ELSE IF StartsWith(s, old) THEN RemoveAll(SubSeq(s, Len(old) + 1, Len(s)), old)
  ELSE <<Head(s)>> \o RemoveAll(Tail(s), old)

\* text occurs in s as a contiguous substring
Contains(s, t) ==
  \E i \in 1..(Len(s) + 1) : i + Len(t) - 1 <= Len(s) /\ SubSeq(s, i, i + Len(t) - 1) = t

(* --------------------------- command words ----------------------------- *)
SP == <<" ">>
CmdCurriculum == <<"/", "c", "u", "r", "r", "i", "c", "u", "l", "u", "m">>
CmdSocratic == <<"/", "s", "o", "c", "r", "a", "t", "i", "c">>
CmdQuiz == <<"/", "q", "u", "i", "z">>
CmdProject == <<"/", "p", "r", "o", "j", "e", "c", "t">>
CmdHelp == <<"/", "h", "e", "l", "p">>

None == <<"<None>">>

\* line 73: text = text.strip().lower()
NormalizeNoStrip(text) == Lower(text)
Normalize(text) == Lower(Strip(text))

\* lines 75, 78, 81, 84: the literal tested by startswith, '/quiz '
MatchPrefixNoSpace(cmd) == cmd
MatchPrefix(cmd) == cmd \o SP

\* lines 76, 79, 82, 85: the literal removed by replace, '/quiz '
StripPrefix(cmd) == cmd \o SP

\* lines 76, 79, 82, 85: text.replace(prefix, '').strip()
Argument(text, prefix) == Strip(RemoveAll(text, prefix))

\* line 87: text.startswith('/help')
IsHelpExact(text) == text = CmdHelp
IsHelp(text) == StartsWith(text, CmdHelp)

parse_chat_command(raw) ==
  LET text == Normalize(raw)
  IN  IF StartsWith(text, MatchPrefix(CmdCurriculum))
        THEN <<"curriculum", Argument(text, StripPrefix(CmdCurriculum))>>
      ELSE IF StartsWith(text, MatchPrefix(CmdSocratic))
        THEN <<"socratic", Argument(text, StripPrefix(CmdSocratic))>>
      ELSE IF StartsWith(text, MatchPrefix(CmdQuiz))
        THEN <<"quiz", Argument(text, StripPrefix(CmdQuiz))>>
      ELSE IF StartsWith(text, MatchPrefix(CmdProject))
        THEN <<"project", Argument(text, StripPrefix(CmdProject))>>
      ELSE IF IsHelp(text)
        THEN <<"help", None>>
      ELSE <<"general", text>>

(* ------------------------- generative backend -------------------------- *)
\* model.generate_content(prompt) followed by resp.text: a completion, or an
\* exception whose str() is the failure reason
GeneratedText == <<"<completion>">>
Reasons == {<<"<quota exceeded>">>}
Outcomes == {[ok |-> TRUE, text |-> GeneratedText]}
            \cup {[ok |-> FALSE, text |-> r] : r \in Reasons}

\* what a call of the responder gives back to handle_message: a returned
\* string, or an exception leaving the function
Returned(gen, prompt, value) ==
  [raised |-> FALSE, called |-> TRUE, gen |-> gen, prompt |-> prompt, value |-> value]
Raised(gen, prompt, e) ==
  [raised |-> TRUE, called |-> TRUE, gen |-> gen, prompt |-> prompt, value |-> e]

\* try: return model.generate_content(prompt).text
\* except Exception as e: return errprefix + str(e)
TryGenerateNoExcept(gen, prompt, errprefix, o) ==
  IF o.ok THEN Returned(gen, prompt, o.text) ELSE Raised(gen, prompt, o.text)
TryGenerate(gen, prompt, errprefix, o) ==
  IF o.ok THEN Returned(gen, prompt, o.text)
  ELSE Returned(gen, prompt, errprefix \o o.text)

CurriculumPrompt(topic) ==
  <<"Create a practical learning roadmap for \"">> \o topic
    \o <<"\". Provide: WEEK 1 .. WEEK 4 ... Format as clean text without HTML or markdown.">>
SocraticPrompt(concept) ==
  <<"You are a Socratic tutor helping a student understand \"">> \o concept
    \o <<"\". Create 6 progressive guiding questions ... Return as a numbered list, one question per line.">>
QuizPrompt(topic) ==
  <<"Act as a quiz creator. Generate atleast 5 multiple-choice questions on \"">> \o topic
    \o <<"\". Format each question as: ... Include brief explanations for the correct answers.">>
ProjectPrompt(topic) ==
  <<"Act as a mentor. Suggest a beginner-friendly project for \"">> \o topic
    \o <<"\". Include: ... Keep it practical and achievable.">>
GeneralPromptFromContent(text) ==
  <<"You are a helpful AI tutor. The student said: \"">> \o Lower(Strip(text))
    \o <<"\" IMPORTANT: Provide direct, actionable help. ...">>
GeneralPrompt(text) ==
  <<"You are a helpful AI tutor. The student said: \"">> \o text
    \o <<"\" IMPORTANT: Provide direct, actionable help. ...">>

ErrCurriculum == <<"Error generating curriculum: ">>
ErrSocratic == <<"Error generating Socratic questions: ">>
ErrQuiz == <<"Error generating quiz: ">>
ErrProject == <<"Error generating project: ">>
Apology ==
  <<"I'm having trouble processing that right now. Try using one of the specific commands like /help to see what I can do!">>

generate_curriculum(topic, o) ==
  TryGenerate("curriculum", CurriculumPrompt(topic), ErrCurriculum, o)
generate_socratic_questions(concept, o) ==
  TryGenerate("socratic", SocraticPrompt(concept), ErrSocratic, o)
generate_quiz(topic, o) ==
  TryGenerate("quiz", QuizPrompt(topic), ErrQuiz, o)
generate_project(topic, o) ==
  TryGenerate("project", ProjectPrompt(topic), ErrProject, o)

HelpText ==
  <<"Welcome to your AI Tutor! Here are the available commands: ">>
    \o CmdCurriculum \o <<" [topic] - Get a 4-week learning curriculum ">>
    \o CmdSocratic \o <<" [concept] - Get Socratic questioning for deeper understanding ">>
    \o CmdQuiz \o <<" [topic] - Generate practice quiz questions ">>
    \o CmdProject \o <<" [topic] - Get project suggestions and guidance ">>
    \o CmdHelp \o <<" - Show this help message ">>
    \o <<"You can also just chat naturally and I'll do my best to help with your learning!">>
get_help_text ==
  [raised |-> FALSE, called |-> FALSE, gen |-> "none", prompt |-> << >>, value |-> HelpText]

\* lines 244-271: the else branch of handle_message
general_responseWithReason(text, o) ==
  IF o.ok THEN Returned("general", GeneralPrompt(text), o.text)
  ELSE Returned("general", GeneralPrompt(text), <<"Error: ">> \o o.text)
general_response(text, o) ==
  IF o.ok THEN Returned("general", GeneralPrompt(text), o.text)
  ELSE Returned("general", GeneralPrompt(text), Apology)

\* a Python str used as a condition: None and '' are false
Truthy(content) == content # None /\ content # << >>

\* lines 230-271: parse the item's text and build response_text
Respond(text, o) ==
  LET parsed == parse_chat_command(text)
      command_type == parsed[1]
      content == parsed[2]
  IN  IF command_type = "curriculum" /\ Truthy(content)
        THEN generate_curriculum(content, o)
      ELSE IF command_type = "socratic" /\ Truthy(content)
        THEN generate_socratic_questions(content, o)
      ELSE IF command_type = "quiz" /\ Truthy(content)
        THEN generate_quiz(content, o)
      ELSE IF command_type = "project" /\ Truthy(content)
        THEN generate_project(content, o)
      ELSE IF command_type = "help"
        THEN get_help_text
      ELSE general_response(text, o)

(* ------------------------------ messages ------------------------------- *)
Senders == {"user1"}

TextContent(text) == [type |-> "text", text |-> text]
StartSessionContent == [type |-> "start-session", text |-> << >>]
EndSessionContent == [type |-> "end-session", text |-> << >>]
\* any other member of the chat protocol's content union (metadata, resource)
OtherContent == [type |-> "metadata", text |-> << >>]

WelcomeText ==
  <<"Welcome to your AI Tutor! Type /help to see available commands or just start asking questions!">>
FarewellText ==
  <<"Thanks for learning with me today! Feel free to start a new session anytime you need help.">>

\* the content list built by create_text_chat; timestamp and the fresh uuid4
\* msg_id of the outbound message are not modelled
create_text_chat(text, end_session) ==
  IF end_session THEN <<TextContent(text), EndSessionContent>>
  ELSE <<TextContent(text)>>

\* an outbound ChatMessage; cause = <<msg_id, position>> of the inbound item
\* whose handling sent it
ChatOut(to, content, cause) ==
  [to |-> to, kind |-> "chat", ack_id |-> 0, content |-> content, cause |-> cause]
\* lines 210-216
ChatAcknowledgement(to, msg) ==
  [to |-> to, kind |-> "ack", ack_id |-> msg.msg_id, content |-> << >>,
   cause |-> <<msg.msg_id, 0>>]

NoMsg == [msg_id |-> 0, sender |-> "", content |-> << >>]

(* ------------------------- texts users may send ------------------------ *)
ArgPrefixes == {CmdCurriculum, CmdSocratic, CmdQuiz, CmdProject}
Chunks == {CmdQuiz, <<"/", "Q", "U", "I", "Z">>, CmdHelp, <<"/", "H", "e", "l", "p">>, SP, <<"a">>}

RECURSIVE ChunkStrings(_)
ChunkStrings(n) ==
  IF n = 0 THEN {<< >>}
  ELSE LET shorter == ChunkStrings(n - 1)
       IN  shorter \cup {s \o c : s \in shorter, c \in Chunks}

Args == ChunkStrings(MaxChunks)
Inputs == Args \cup ArgPrefixes \cup {P \o SP \o a : P \in ArgPrefixes, a \in Args}

SampleTexts ==
  { CmdHelp,
    CmdQuiz \o SP \o <<"a">>,
    <<"B", " ", "a">> }

RECURSIVE ContentLists(_, _)
ContentLists(items, n) ==
  IF n = 0 THEN {<< >>}
  ELSE LET shorter == ContentLists(items, n - 1)
       IN  shorter \cup {Append(c, i) : c \in shorter, i \in items}

Items == {StartSessionContent, EndSessionContent, OtherContent}
         \cup {TextContent(t) : t \in SampleTexts}
\* the content lists of at most n items
Contents(n) == ContentLists(Items, n)

RECURSIVE TotalItems(_)
TotalItems(msgs) ==
  IF msgs = << >> THEN 0 ELSE Len(Head(msgs).content) + TotalItems(Tail(msgs))

(* ------------------------------- state --------------------------------- *)
Init ==
  /\ inbox = << >>
  /\ pc = "idle"
  /\ cur = NoMsg
  /\ idx = 0
  /\ outbox = << >>
  /\ calls = << >>
  /\ intents = << >>
  /\ arrived = << >>
  /\ crashed = FALSE

\* one inbound ChatMessage with a single text item is waiting for the handler
InitParse ==
  /\ \E t \in Inputs, s \in Senders :
       /\ inbox = <<[msg_id |-> 1, sender |-> s, content |-> <<TextContent(t)>>]>>
       /\ arrived = inbox
  /\ pc = "idle"
  /\ cur = NoMsg
  /\ idx = 0
  /\ outbox = << >>
  /\ calls = << >>
  /\ intents = << >>
  /\ crashed = FALSE

(* ------------------------------ transport ------------------------------ *)
\* a peer sends a ChatMessage to the agent
Arrive ==
  /\ Len(arrived) < MaxMsgs
  /\ Len(inbox) < MaxQueue
  /\ \E s \in Senders, c \in Contents(MaxItems - TotalItems(arrived)) :
       LET m == [msg_id |-> Len(arrived) + 1, sender |-> s, content |-> c]
       IN  /\ inbox' = Append(inbox, m)
           /\ arrived' = Append(arrived, m)
  /\ UNCHANGED <<pc, cur, idx, outbox, calls, intents, crashed>>

\* the transport hands over one message at a time, oldest first, and only
\* when the previous call of the handler has returned
TransportDelivers(m) == pc = "idle" /\ inbox # << >> /\ m = Head(inbox)

(* ---------------------------- handle_message --------------------------- *)
\* lines 205-207: the handler is entered with msg
Deliver ==
  /\ \E m \in {inbox[i] : i \in 1..Len(inbox)} :
       /\ TransportDelivers(m)
       /\ cur' = m
  /\ inbox' = Tail(inbox)
  /\ pc' = "ack"
  /\ idx' = 0
  /\ UNCHANGED <<outbox, calls, intents, arrived, crashed>>

\* lines 210-216: await ctx.send(sender, ChatAcknowledgement(...))
SendAckSkipped ==
  /\ pc = "ack"
  /\ outbox' = IF cur.content = << >> THEN outbox
               ELSE Append(outbox, ChatAcknowledgement(cur.sender, cur))
  /\ pc' = "loop"
  /\ idx' = 1
  /\ UNCHANGED <<inbox, cur, calls, intents, arrived, crashed>>
SendAck ==
  /\ pc = "ack"
  /\ outbox' = Append(outbox, ChatAcknowledgement(cur.sender, cur))
  /\ pc' = "loop"
  /\ idx' = 1
  /\ UNCHANGED <<inbox, cur, calls, intents, arrived, crashed>>

\* line 218: for item in msg.content -- the position visited in iteration k
ItemPosReversed(content, k) == Len(content) + 1 - k
ItemPos(content, k) == k

InLoop == pc = "loop" /\ idx <= Len(cur.content)
Pos == ItemPos(cur.content, idx)
Item == cur.content[Pos]

\* lines 219-224
HandleStart ==
  /\ InLoop
  /\ Item.type = "start-session"
  /\ outbox' = Append(outbox, ChatOut(cur.sender, create_text_chat(WelcomeText, FALSE),
                                      <<cur.msg_id, Pos>>))
  /\ idx' = idx + 1
  /\ UNCHANGED <<inbox, pc, cur, calls, intents, arrived, crashed>>

\* lines 226-275
HandleText ==
  /\ InLoop
  /\ Item.type = "text"
  /\ \E o \in Outcomes :
       LET r == Respond(Item.text, o)
       IN  /\ intents' = Append(intents, [msg_id |-> cur.msg_id, pos |-> Pos,
                                          text |-> Item.text,
                                          intent |-> parse_chat_command(Item.text)])
           /\ calls' = IF r.called
                         THEN Append(calls, [msg_id |-> cur.msg_id, pos |-> Pos,
                                             gen |-> r.gen, prompt |-> r.prompt,
                                             ok |-> o.ok, reason |-> o.text])
                         ELSE calls
           /\ IF r.raised
                THEN \* the exception leaves handle_message: nothing is sent
                     /\ crashed' = TRUE
                     /\ pc' = "idle"
                     /\ cur' = NoMsg
                     /\ idx' = 0
                     /\ UNCHANGED outbox
                ELSE /\ outbox' = Append(outbox,
                                         ChatOut(cur.sender, create_text_chat(r.value, FALSE),
                                                 <<cur.msg_id, Pos>>))
                     /\ idx' = idx + 1
                     /\ UNCHANGED <<pc, cur, crashed>>
  /\ UNCHANGED <<inbox, arrived>>

\* lines 277-283
HandleEnd ==
  /\ InLoop
  /\ Item.type = "end-session"
  /\ outbox' = Append(outbox, ChatOut(cur.sender, create_text_chat(FarewellText, TRUE),
                                      <<cur.msg_id, Pos>>))
  /\ idx' = idx + 1
  /\ UNCHANGED <<inbox, pc, cur, calls, intents, arrived, crashed>>

\* lines 285-286
HandleOther ==
  /\ InLoop
  /\ Item.type \notin {"start-session", "text", "end-session"}
  /\ idx' = idx + 1
  /\ UNCHANGED <<inbox, pc, cur, outbox, calls, intents, arrived, crashed>>

\* the for loop is exhausted and handle_message returns
Return ==
  /\ pc = "loop"
  /\ idx > Len(cur.content)
  /\ pc' = "idle"
  /\ cur' = NoMsg
  /\ idx' = 0
  /\ UNCHANGED <<inbox, outbox, calls, intents, arrived, crashed>>

Next ==
  \/ Arrive
  \/ Deliver
  \/ SendAck
  \/ HandleStart
  \/ HandleText
  \/ HandleEnd
  \/ HandleOther
  \/ Return

Spec == Init /\ [][Next]_vars

NextParse ==
  \/ Deliver
  \/ SendAck
  \/ HandleText
  \/ Return

ParseSpec == InitParse /\ [][NextParse]_vars

(* ----------------------- reading the histories ------------------------- *)
Templated == {"curriculum", "socratic", "quiz", "project"}
CmdOf(kind) ==
  CASE kind = "curriculum" -> CmdCurriculum [] kind = "socratic" -> CmdSocratic
    [] kind = "quiz" -> CmdQuiz [] kind = "project" -> CmdProject
ErrOf(kind) ==
  CASE kind = "curriculum" -> ErrCurriculum [] kind = "socratic" -> ErrSocratic
    [] kind = "quiz" -> ErrQuiz [] kind = "project" -> ErrProject

ChatsFor(id, p) ==
  {k \in DOMAIN outbox : outbox[k].kind = "chat" /\ outbox[k].cause = <<id, p>>}
AcksFor(id) ==
  {k \in DOMAIN outbox : outbox[k].kind = "ack" /\ outbox[k].ack_id = id}
IntentsFor(id, p) ==
  {k \in DOMAIN intents : intents[k].msg_id = id /\ intents[k].pos = p}
CallsFor(id, p) ==
  {k \in DOMAIN calls : calls[k].msg_id = id /\ calls[k].pos = p}

Waiting(id) == \E i \in DOMAIN inbox : inbox[i].msg_id = id
\* the handler has gone past the acknowledgement of message id
PastAck(id) == ~Waiting(id) /\ ~(cur.msg_id = id /\ pc = "ack")
\* how many content items of message id the handler has gone past
Progress(id) ==
  IF Waiting(id) THEN 0
  ELSE IF cur.msg_id = id THEN (IF pc = "loop" THEN idx - 1 ELSE 0)
  ELSE Len(arrived[id].content)

ResponseText(id, p) == outbox[CHOOSE k \in ChatsFor(id, p) : TRUE].content[1].text

\* the text, trimmed and lower-cased, as the command surface matches it
Matched(text) == Lower(Strip(text))
MatchesArgPrefix(text) == \E P \in ArgPrefixes : StartsWith(Matched(text), P \o SP)

(* ------------------------------- claims -------------------------------- *)
\* C1: every text item the handler has gone past has exactly one derived
\* intent, the one parse_chat_command gives for its text, and exactly one
\* outbound chat message carrying a single text; every start-session or
\* end-session item has exactly one outbound message, the fixed welcome or
\* the fixed farewell, and no intent; an item of another kind has neither; an
\* item not yet handled has neither.
C1_OneResponsePerItem ==
  \A id \in DOMAIN arrived : \A p \in DOMAIN arrived[id].content :
    LET item == arrived[id].content[p]
        chats == ChatsFor(id, p)
        ints == IntentsFor(id, p)
    IN  IF p > Progress(id) THEN chats = {} /\ ints = {}
        ELSE CASE item.type = "text" ->
                    /\ Cardinality(chats) = 1
                    /\ Cardinality(ints) = 1
                    /\ \A k \in ints : intents[k].intent = parse_chat_command(item.text)
                    /\ \A k \in chats : /\ Len(outbox[k].content) = 1
                                        /\ outbox[k].content[1].type = "text"
                                        /\ outbox[k].to = arrived[id].sender
               [] item.type = "start-session" ->
                    /\ Cardinality(chats) = 1
                    /\ ints = {}
                    /\ \A k \in chats : outbox[k].content = <<TextContent(WelcomeText)>>
               [] item.type = "end-session" ->
                    /\ Cardinality(chats) = 1
                    /\ ints = {}
                    /\ \A k \in chats :
                         outbox[k].content = <<TextContent(FarewellText), EndSessionContent>>
               [] OTHER -> chats = {} /\ ints = {}

\* a returned message held a text item whose backend call failed, a session
\* item and an item of another kind
C1_Witness ==
  \E id \in DOMAIN arrived :
    /\ Progress(id) = Len(arrived[id].content)
    /\ cur.msg_id # id
    /\ \E p \in DOMAIN arrived[id].content :
         /\ arrived[id].content[p].type = "text"
         /\ \E k \in CallsFor(id, p) : ~calls[k].ok
         /\ ChatsFor(id, p) # {}
    /\ \E p \in DOMAIN arrived[id].content : arrived[id].content[p].type = "metadata"

\* C2: responding never raises and always yields a display string; a failed
\* backend call for a templated intent yields "Error generating <kind>: "
\* followed by the failure reason, a failed call for the general intent yields
\* the fixed apology, which names /help and does not contain the reason.
C2_FailuresRendered ==
  /\ ~crashed
  /\ \A k \in DOMAIN intents : ChatsFor(intents[k].msg_id, intents[k].pos) # {}
  /\ \A k \in DOMAIN calls :
       ~calls[k].ok =>
         LET resp == ResponseText(calls[k].msg_id, calls[k].pos)
         IN  IF calls[k].gen \in Templated
               THEN /\ StartsWith(resp, ErrOf(calls[k].gen))
                    /\ resp = ErrOf(calls[k].gen) \o calls[k].reason
               ELSE /\ calls[k].gen = "general"
                    /\ resp = Apology
                    /\ ~Contains(resp, calls[k].reason)

\* the backend failed while a quiz was generated and the error text was sent
C2_Witness ==
  \E k \in DOMAIN calls :
    /\ ~calls[k].ok
    /\ calls[k].gen = "quiz"
    /\ ChatsFor(calls[k].msg_id, calls[k].pos) # {}

\* C3: for text P + " " + arg with a non-blank arg, parse gives the intent
\* tagged P with arg trimmed and otherwise unchanged (case kept, later
\* occurrences of the prefix text kept).
C3_ArgumentUnchanged ==
  \A k \in DOMAIN intents : \A kind \in Templated :
    LET P == CmdOf(kind) \o SP
        text == intents[k].text
        arg == SubSeq(text, Len(P) + 1, Len(text))
    IN  (StartsWith(text, P) /\ Strip(arg) # << >>) =>
          intents[k].intent = <<kind, Strip(arg)>>

C5_HelpExactNoCall ==
  \A k \in DOMAIN intents :
    LET n == Cardinality(CallsFor(intents[k].msg_id, intents[k].pos))
    IN  IF Matched(intents[k].text) = CmdHelp
          THEN n = 0 /\ ResponseText(intents[k].msg_id, intents[k].pos) = HelpText
          ELSE n = 1

\* C5 amended: every text item whose trimmed, lower-cased text begins with
\* /help gets the constant help string, which names all five commands, and
\* causes no backend call whatever the backend would answer; every other text
\* item causes exactly one backend call, also when that call fails.
C5_HelpPrefixNoCall ==
  /\ \A c \in ArgPrefixes \cup {CmdHelp} : Contains(HelpText, c)
  /\ \A k \in DOMAIN intents :
       LET n == Cardinality(CallsFor(intents[k].msg_id, intents[k].pos))
       IN  IF StartsWith(Matched(intents[k].text), CmdHelp)
             THEN n = 0 /\ ResponseText(intents[k].msg_id, intents[k].pos) = HelpText
             ELSE n = 1

\* a text that begins with /Help and goes on was answered
C5_Witness ==
  \E k \in DOMAIN intents :
    /\ StartsWith(Matched(intents[k].text), CmdHelp)
    /\ Matched(intents[k].text) # CmdHelp
    /\ Lower(intents[k].text) # intents[k].text
    /\ ChatsFor(intents[k].msg_id, intents[k].pos) # {}

\* C6: every message the handler has gone past the first statement of has
\* exactly one acknowledgement, sent to its sender with its msg_id, placed
\* before every response to it; a message not yet there has none; no failure
\* of the backend ends the handler early.
C6_AckOnceFirst ==
  /\ ~crashed
  /\ \A id \in DOMAIN arrived :
       IF PastAck(id)
         THEN /\ Cardinality(AcksFor(id)) = 1
              /\ \A a \in AcksFor(id) :
                   /\ outbox[a].to = arrived[id].sender
                   /\ \A k \in DOMAIN outbox :
                        (outbox[k].kind = "chat" /\ outbox[k].cause[1] = id) => a < k
         ELSE AcksFor(id) = {} /\ \A k \in DOMAIN outbox : outbox[k].cause[1] # id

\* a backend call failed for the first message, and both messages were
\* acknowledged and the second one answered
C6_Witness ==
  /\ \E k \in DOMAIN calls : calls[k].msg_id = 1 /\ ~calls[k].ok
  /\ AcksFor(1) # {}
  /\ AcksFor(2) # {}
  /\ \E k \in DOMAIN outbox : outbox[k].kind = "chat" /\ outbox[k].cause[1] = 2

\* the session of a sender as the messages sent to it so far define it
RECURSIVE SessionAfter(_, _)
SessionAfter(box, to) ==
  IF box = << >> THEN "Idle"
  ELSE LET last == box[Len(box)]
           before == SubSeq(box, 1, Len(box) - 1)
       IN  IF last.kind = "chat" /\ last.to = to /\ last.content[1].text = WelcomeText
             THEN "Active"
           ELSE IF last.kind = "chat" /\ last.to = to /\ last.content[1].text = FarewellText
             THEN "Ended"
           ELSE SessionAfter(before, to)

\* C7: a response to a text item is sent only while the sender's session is
\* Active: after a welcome and with no farewell since.
C7_TextOnlyWhileActive ==
  \A k \in DOMAIN outbox :
    (outbox[k].kind = "chat" /\ IntentsFor(outbox[k].cause[1], outbox[k].cause[2]) # {}) =>
      SessionAfter(SubSeq(outbox, 1, k - 1), outbox[k].to) = "Active"

CauseBefore(a, b) == a[1] < b[1] \/ (a[1] = b[1] /\ a[2] < b[2])

C9_BareCommandIsGeneral ==
  \A k \in DOMAIN intents :
    (Matched(intents[k].text) \in ArgPrefixes) =>
      LET cs == CallsFor(intents[k].msg_id, intents[k].pos)
      IN  /\ Cardinality(cs) = 1
          /\ \A c \in cs : /\ calls[c].gen = "general"
                           /\ calls[c].prompt = GeneralPrompt(intents[k].text)
                           /\ Contains(calls[c].prompt, intents[k].text)
          /\ ResponseText(intents[k].msg_id, intents[k].pos) \in {GeneratedText, Apology}

\* a bare /QUIZ followed by a blank was answered
C9_Witness ==
  \E k \in DOMAIN intents :
    /\ intents[k].text = <<"/", "Q", "U", "I", "Z", " ">>
    /\ ChatsFor(intents[k].msg_id, intents[k].pos) # {}

\* C10: a templated intent never carries an empty argument, and the general
\* branch is entered only with the general intent.
C10_ArgumentNonEmpty ==
  /\ \A k \in DOMAIN intents :
       intents[k].intent[1] \in Templated =>
         intents[k].intent[2] # << >> /\ intents[k].intent[2] # None
  /\ \A c \in DOMAIN calls :
       calls[c].gen = "general" =>
         \A k \in IntentsFor(calls[c].msg_id, calls[c].pos) : intents[k].intent[1] = "general"

\* the prefix was removed twice, leaving one character
C10_Witness ==
  \E k \in DOMAIN intents :
    /\ intents[k].text = CmdQuiz \o SP \o CmdQuiz \o SP \o <<"a">>
    /\ intents[k].intent = <<"quiz", <<"a">> >>

====
